---- MODULE Spec2Model ----
(***************************************************************************)
(* Model of fitness_bot_full_for_user.py: a Telegram bot served through a  *)
(* Flask webhook.  Every POST to the webhook runs                          *)
(*     asyncio.run(application.process_update(update))                     *)
(* so every update is processed on an event loop of its own: the handler   *)
(* runs its synchronous part (database statements, start_user_timer /      *)
(* stop_user_timer calls), awaits its single reply, and when               *)
(* process_update returns asyncio.run cancels every task still pending on  *)
(* that loop, runs the cancelled tasks to completion and closes the loop.  *)
(* Webhook requests are processed one at a time.                           *)
(*                                                                         *)
(* Dates are day numbers; day 0 is a Monday, so date.weekday() is d % 7.   *)
(* NULL / None is the empty tuple <<>>, a present value v is <<v>>.        *)
(* Command arguments (context.args) are sequences of string tokens; int(), *)
(* float() and str.split are modelled extensionally over the vocabulary of *)
(* tokens the model draws its inputs from.                                 *)
(***************************************************************************)
EXTENDS Integers, Sequences, FiniteSets, TLC

VARIABLES
    today,              \* date.today()
    users,              \* table users:        user_id -> <<>> | <<[username, frozen_until]>>
    plans,              \* table plans:        user_id -> <<>> | <<start_date>>
    init_stats,         \* table init_stats:   user_id -> <<>> | <<[weight, height, bench, squat, row, curl]>>
    measurements,       \* table measurements: <<user_id, mdate>> -> [waist, hips, chest, butt, weight]
    steps,              \* table steps:        <<user_id, sdate>> -> steps
    supplements,        \* table supplements:  <<user_id, name>> -> [dose, when_before_min, when_after_min, enabled]
    goals,              \* table goals:        sequence of rows, goal_id = index
    integrations,       \* table integrations: <<user_id, provider>> -> api_key
    USER_TIMER_TASKS,   \* user_id -> (timer name -> task)
    loop,               \* "idle" (no update in progress) | "running" (asyncio.run in progress)
    clock,              \* seconds elapsed on the running event loop
    update,             \* <<>> | <<[user, cmd, args]>>: the update in progress or last processed
    replies,            \* the direct replies (reply_text / reply_photo / reply_document) of that update
    calls,              \* the start_user_timer calls of that update: [user, name, seconds, existed, ok]
    stopped,            \* the result of that update's stop_user_timer call, <<>> if it made none
    orphans,            \* tasks popped from USER_TIMER_TASKS while still pending: [user, name, task]
    budget,             \* number of updates the webhook will still receive
    freezeLog,          \* history: user -> <<>> | <<[day, days]>>, the user's last successful /freeze
                        \* (the day it was issued, its N) since the user's last /resume
    planArg,            \* argument of a direct call of make_30day_plan
    planOut             \* its result, <<>> before the call

db == <<users, plans, init_stats, measurements, steps, supplements, goals, integrations>>
vars == <<today, users, plans, init_stats, measurements, steps, supplements, goals,
          integrations, USER_TIMER_TASKS, orphans, loop, clock, update, replies, calls,
          stopped, budget, freezeLog, planArg, planOut>>

NULL == <<>>
Some(v) == <<v>>

Users == {1, 2}
MainUsers == {1}        \* the users whose updates Spec draws

(* ------------------------------ bounds -------------------------------- *)
MaxUpdates == 2         \* updates received in a behaviour of Spec
MaxDay == 1             \* last day the calendar reaches in Spec
MaxLoopSeconds == 60    \* longest time one update's event loop stays alive
MaxStart == 55          \* largest start date handed to make_30day_plan in PlanSpec
MaxCalUpdates == 4      \* updates received in a behaviour of CalSpec
MaxCalDay == 3          \* last day the calendar reaches in CalSpec
MaxPlanAge == 30        \* oldest plan start CalSpec finds stored, in days before day 0
MaxProgUpdates == 2     \* updates received in a behaviour of ProgSpec
MaxProgDay == 2         \* last day the calendar reaches in ProgSpec
MaxProgAge == 28        \* oldest plan start ProgSpec finds stored, in days before day 0
MaxStopUpdates == 5     \* updates received in a behaviour of StopSpec

(* ----------------------- Plan generation ------------------------------ *)
PlanDays == 30
Cycle == <<"A", "B", "C">>
CARDIO_MENU == << <<"Easy Run / Jog", 60>>, <<"Rowing Erg", 60>>, <<"Cycling (Z2)", 75>>,
                  <<"HIIT Intervals", 30>>, <<"Stair Climber", 60>>, <<"Elliptical", 60>> >>

weekday(d) == d % 7

\* mutant: Saturday taken for a strength day instead of Friday
IsStrengthDay_Sat(wd) == wd \in {0, 2, 5}

IsStrengthDay(wd) == wd \in {0, 2, 4}

\* the loop body of make_30day_plan from iteration i on, with the loop's state (out, si, ci)
RECURSIVE plan_loop(_, _, _, _, _)
plan_loop(start, i, out, si, ci) ==
    IF i >= PlanDays THEN out
    ELSE LET d  == start + i
             wd == weekday(d)
         IN  IF wd = 6 THEN plan_loop(start, i + 1, out, si, ci)
             ELSE IF IsStrengthDay(wd)
                  THEN plan_loop(start, i + 1,
                                 Append(out, [d |-> d, wtype |-> "strength",
                                              name |-> "Strength " \o Cycle[si + 1]]),
                                 (si + 1) % 3, ci)
                  ELSE plan_loop(start, i + 1,
                                 Append(out, [d |-> d, wtype |-> "cardio",
                                              name |-> "Cardio: " \o CARDIO_MENU[(ci % Len(CARDIO_MENU)) + 1][1]]),
                                 si, ci + 1)

make_30day_plan(start) == plan_loop(start, 0, <<>>, 0, 0)

(* --------------------------- Progression ------------------------------ *)
STRENGTH_SPLITS ==
    [A |-> << <<"Squat", 3, 5>>, <<"Bench Press", 3, 5>>, <<"Bent-over Row", 3, 8>>,
              <<"Plank", 3, 60>> >>,
     B |-> << <<"Deadlift", 3, 5>>, <<"Overhead Press", 3, 5>>,
              <<"Lat Pulldown / Pull-ups", 3, 8>>, <<"Hanging Knee Raise", 3, 12>> >>,
     C |-> << <<"Front Squat / Lunge", 3, 8>>, <<"Incline Bench / DB Press", 3, 8>>,
              <<"Seated Row", 3, 10>>, <<"Back Extension", 3, 12>> >>]

\* name.split()[-1] for the names make_30day_plan gives its strength days
split_last(name) ==
    CASE name = "Strength A" -> "A"
      [] name = "Strength B" -> "B"
      [] name = "Strength C" -> "C"

\* word in ex, for the exercise names of STRENGTH_SPLITS and the words cmd_today looks for
Contains ==
    {<<"Squat", "Squat">>, <<"Front Squat / Lunge", "Squat">>, <<"Deadlift", "Deadlift">>,
     <<"Bench Press", "Bench">>, <<"Incline Bench / DB Press", "Bench">>,
     <<"Bent-over Row", "Row">>, <<"Seated Row", "Row">>}

has(ex, word) == <<ex, word>> \in Contains

RECURSIVE gcd(_, _)
gcd(a, b) == IF b = 0 THEN a ELSE gcd(b, a % b)

\* base * ((1 + percent / 100) ** weeks), exactly.  base is in hundredths of a kg, percent in
\* tenths of a percent, weeks >= 0; the result [q, r, D] stands for q + r / D tenths of a kg
\* with 0 <= r < D.  Each week multiplies by n / m, the factor (1000 + percent) / 1000 in
\* lowest terms, so that every intermediate value stays within 32 bits
RECURSIVE compound(_, _, _)
compound(base, weeks, percent) ==
    IF weeks = 0 THEN [q |-> base \div 10, r |-> base % 10, D |-> 10]
    ELSE LET x     == compound(base, weeks - 1, percent)
             g     == gcd(1000 + percent, 1000)
             n     == (1000 + percent) \div g
             m     == 1000 \div g
             whole == x.q * n
             frac  == (whole % m) * x.D + x.r * n
         IN  [q |-> (whole \div m) + (frac \div (m * x.D)), r |-> frac % (m * x.D),
              D |-> m * x.D]

\* round(x, 1) of a double that equals a decimal tie x.5 tenths exactly in decimal arithmetic
\* goes to the neighbour the double's binary value is nearer to: the <<base, weeks, percent>>
\* of the vocabulary whose product lies above its tie (1 * 1.05 = 1.05 -> 1.1,
\* 3 * 1.05 = 3.15 -> 3.2); every other tie of the vocabulary lies on or below it and goes
\* down (80.25 -> 80.2, 2 * 1.025 = 2.05 -> 2.0, 5 * 1.05 = 5.25 -> 5.2, 80 * 1.025 ** 2 -> 84.0)
FloatTiesUp == {<<100, 1, 50>>, <<300, 1, 50>>}

\* mutant: the percentage is added once per week instead of compounded (as cmd_today does
\* for the minutes of a cardio day)
progression_linear(base, weeks, percent) ==
    LET num == base * (1000 + percent * weeks)
        den == 10000
        q   == num \div den
        r   == num % den
    IN  IF 2 * r > den \/ (2 * r = den /\ q % 2 = 1) THEN q + 1 ELSE q

\* progression(base, weeks, percent), in tenths of a kg
progression(base, weeks, percent) ==
    LET x == compound(base, weeks, percent)
    IN  IF 2 * x.r > x.D \/ (2 * x.r = x.D /\ <<base, weeks, percent>> \in FloatTiesUp)
        THEN x.q + 1 ELSE x.q

\* the w cmd_today computes for an exercise: <<>> is None
exercise_weight(stats, ex, weeks) ==
    IF stats = <<>> THEN <<>>
    ELSE IF has(ex, "Bench") THEN <<progression(stats[1].bench, weeks, 25)>>
    ELSE IF has(ex, "Squat") \/ has(ex, "Deadlift") THEN <<progression(stats[1].squat, weeks, 50)>>
    ELSE IF has(ex, "Row") THEN <<progression(stats[1].row, weeks, 25)>>
    ELSE IF has(ex, "Curl") \/ has(ex, "Biceps") THEN <<progression(stats[1].curl, weeks, 25)>>
    ELSE <<>>

\* f"({w} kg)" if w else "": None and 0.0 are not shown
shown_weight(w) == IF w # <<>> /\ w[1] # 0 THEN w ELSE <<>>

\* next((b for n, b in CARDIO_MENU if name.endswith(n)), 60)
cardio_base(name) ==
    LET hit == {i \in 1..Len(CARDIO_MENU) : name = "Cardio: " \o CARDIO_MENU[i][1]}
    IN  IF hit = {} THEN 60 ELSE CARDIO_MENU[CHOOSE i \in hit : \A j \in hit : i <= j][2]

\* int(round(base * (1 + 0.05 * weeks))): the products of the bases of CARDIO_MENU are exact
\* enough as doubles for round() to go to the even neighbour at a tie (31.5 -> 32, 82.5 -> 82)
cardio_minutes(base, weeks) ==
    LET num == base * (100 + 5 * weeks)
        q   == num \div 100
        r   == num % 100
    IN  IF 2 * r > 100 \/ (2 * r = 100 /\ q % 2 = 1) THEN q + 1 ELSE q

(* --------------------------- DB helpers ------------------------------- *)
\* INSERT OR REPLACE into a table keyed by k
Upsert(table, k, row) == (k :> row) @@ table

ensure_user(tbl, u, username) ==
    IF tbl[u] = NULL THEN [tbl EXCEPT ![u] = Some([username |-> Some(username), frozen_until |-> NULL])]
    ELSE tbl

get_plan_start(u) == plans[u]

\* get_plan_start(user.id) or date.today()
plan_start_or_today(u) == IF get_plan_start(u) # NULL THEN get_plan_start(u)[1] ELSE today

log_measurement(tbl, u, waist, hips, chest, butt, weight) ==
    Upsert(tbl, <<u, today>>, [waist |-> waist, hips |-> hips, chest |-> chest,
                               butt |-> butt, weight |-> weight])

log_steps(tbl, u, n, sdate) == Upsert(tbl, <<u, sdate>>, n)

(* ------------------------------ Timers -------------------------------- *)
\* asyncio.create_task(_timer_sleep_and_notify(...)): the task runs up to its
\* await asyncio.sleep(seconds) before the handler that created it can resume
NewTask(seconds, finish_message) ==
    [seconds |-> seconds, finish_message |-> finish_message, state |-> "sleeping",
     finish_sent |-> FALSE, cancel_sent |-> FALSE]

timer_exists(T, u, timer_name) == u \in DOMAIN T /\ timer_name \in DOMAIN T[u]

\* USER_TIMER_TASKS.setdefault(user_id, {})
setdefault(T, u) == IF u \in DOMAIN T THEN T ELSE (u :> <<>>) @@ T

\* mutant: a timer requested under a name already present replaces the entry
start_user_timer_replace(T, u, timer_name, seconds, finish_message) ==
    [setdefault(T, u) EXCEPT ![u] = (timer_name :> NewTask(seconds, finish_message)) @@ @]

\* the timer table after start_user_timer; its return value is start_ok on the table before
start_user_timer(T, u, timer_name, seconds, finish_message) ==
    LET T1 == setdefault(T, u)
    IN  IF timer_name \in DOMAIN T1[u] THEN T1
        ELSE [T1 EXCEPT ![u] = (timer_name :> NewTask(seconds, finish_message)) @@ @]

start_ok(T, u, timer_name) == ~timer_exists(T, u, timer_name)

\* the entry start_user_timer leaves in the call log of the update
CallRecord(T, u, timer_name, seconds) ==
    [user |-> u, name |-> timer_name, seconds |-> seconds,
     existed |-> timer_exists(T, u, timer_name), ok |-> start_ok(T, u, timer_name)]

\* start_user_timer for each request of reqs ([name, seconds, msg], names distinct)
RECURSIVE StartAll(_, _, _)
StartAll(T, u, reqs) ==
    IF reqs = {} THEN T
    ELSE LET r == CHOOSE x \in reqs : TRUE
         IN  StartAll(start_user_timer(T, u, r.name, r.seconds, r.msg), u, reqs \ {r})

\* Task.cancel(): no effect on a finished task; otherwise CancelledError is raised at the
\* await the task is suspended in: the sleep, or the send_message of the finish message
\* (already transmitted when the task awaits the response)
cancel(t) == IF t.state = "done" THEN t ELSE [t EXCEPT !.state = "cancelling"]

\* except asyncio.CancelledError: await send_message('Timer <name> cancelled'), run to its end
run_cancelled(t) ==
    IF t.state = "cancelling" THEN [t EXCEPT !.state = "done", !.cancel_sent = TRUE] ELSE t

\* the names stop_user_timer returns (the list's order is the dict's insertion order, not modelled)
stop_names(T, u, timer_name) ==
    LET user_tasks == IF u \in DOMAIN T THEN T[u] ELSE <<>>
    IN  IF timer_name # NULL /\ timer_name[1] # ""
        THEN IF timer_name[1] \in DOMAIN user_tasks THEN {timer_name[1]} ELSE {}
        ELSE DOMAIN user_tasks

\* mutant: the timers are looked up by name alone, in every user's table
stop_user_timer_any_user(T, u, timer_name) ==
    [v \in DOMAIN T |-> [n \in (DOMAIN T[v]) \ stop_names(T, u, timer_name) |-> T[v][n]]]

\* the timer table after stop_user_timer(user_id, timer_name): the stopped entries are popped
stop_user_timer(T, u, timer_name) ==
    IF u \in DOMAIN T
    THEN [T EXCEPT ![u] = [n \in (DOMAIN T[u]) \ stop_names(T, u, timer_name) |-> T[u][n]]]
    ELSE T

\* the popped tasks that were still pending when stop_user_timer cancelled them
stop_orphans(T, u, timer_name) ==
    {[user |-> u, name |-> n, task |-> cancel(T[u][n])] :
        n \in {m \in stop_names(T, u, timer_name) : T[u][m].state # "done"}}

(* --------------------------- the event loop --------------------------- *)
Tasks == UNION {{u} \X DOMAIN USER_TIMER_TASKS[u] : u \in DOMAIN USER_TIMER_TASKS}

SetTask(u, n, t) == USER_TIMER_TASKS' = [USER_TIMER_TASKS EXCEPT ![u][n] = t]

LoopFrame == UNCHANGED <<today, db, loop, update, replies, calls, stopped, budget,
                         freezeLog, planArg, planOut, orphans>>

\* asyncio.sleep(seconds) is over: the task goes on to await send_message(finish_message)
TimerWake ==
    /\ loop = "running"
    /\ \E k \in Tasks :
        LET t == USER_TIMER_TASKS[k[1]][k[2]]
        IN  /\ t.state = "sleeping"
            /\ t.seconds <= clock
            /\ SetTask(k[1], k[2], [t EXCEPT !.state = "sending"])
    /\ UNCHANGED clock
    /\ LoopFrame

\* the sendMessage request of the finish message has gone out
TimerTransmit ==
    /\ loop = "running"
    /\ \E k \in Tasks :
        LET t == USER_TIMER_TASKS[k[1]][k[2]]
        IN  /\ t.state = "sending"
            /\ SetTask(k[1], k[2], [t EXCEPT !.state = "awaiting", !.finish_sent = TRUE])
    /\ UNCHANGED clock
    /\ LoopFrame

\* its response has arrived: _timer_sleep_and_notify returns
TimerDone ==
    /\ loop = "running"
    /\ \E k \in Tasks :
        LET t == USER_TIMER_TASKS[k[1]][k[2]]
        IN  /\ t.state = "awaiting"
            /\ SetTask(k[1], k[2], [t EXCEPT !.state = "done"])
    /\ UNCHANGED clock
    /\ LoopFrame

Due(t) == t.state = "sleeping" /\ t.seconds <= clock

\* time passes while the handler awaits its reply: up to the next timer deadline
Tick ==
    /\ loop = "running"
    /\ \A k \in Tasks : ~Due(USER_TIMER_TASKS[k[1]][k[2]])
    /\ LET later == {USER_TIMER_TASKS[k[1]][k[2]].seconds : k \in
                        {x \in Tasks : /\ USER_TIMER_TASKS[x[1]][x[2]].state = "sleeping"
                                       /\ USER_TIMER_TASKS[x[1]][x[2]].seconds <= MaxLoopSeconds}}
       IN  /\ later # {}
           /\ clock' = CHOOSE s \in later : \A s2 \in later : s <= s2
    /\ UNCHANGED USER_TIMER_TASKS
    /\ LoopFrame

\* process_update returns and asyncio.run ends: every task still pending on the loop is
\* cancelled and run to completion, then the loop is closed
RunReturns ==
    /\ loop = "running"
    /\ \A k \in Tasks : ~Due(USER_TIMER_TASKS[k[1]][k[2]])
    /\ USER_TIMER_TASKS' = [u \in DOMAIN USER_TIMER_TASKS |->
                              [n \in DOMAIN USER_TIMER_TASKS[u] |->
                                  run_cancelled(cancel(USER_TIMER_TASKS[u][n]))]]
    /\ orphans' = {[o EXCEPT !.task = run_cancelled(cancel(o.task))] : o \in orphans}
    /\ loop' = "idle"
    /\ clock' = 0
    /\ UNCHANGED <<today, db, update, replies, calls, stopped, budget, freezeLog,
                   planArg, planOut>>

\* midnight passes between two updates
AdvanceDay(maxDay) ==
    /\ loop = "idle"
    /\ today < maxDay
    /\ today' = today + 1
    /\ UNCHANGED <<db, USER_TIMER_TASKS, orphans, loop, clock, update, replies, calls, stopped,
                   budget, freezeLog, planArg, planOut>>

(* ----------------------- parsing of arguments -------------------------- *)
\* the integer literals of the token vocabulary and their values; int(tok) and float(tok)
\* raise ValueError on every other token
IntVal == ("-1" :> -1) @@ ("0" :> 0) @@ ("1" :> 1) @@ ("2" :> 2) @@ ("3" :> 3) @@
          ("4" :> 4) @@ ("5" :> 5) @@ ("80" :> 80)

is_int(tok) == tok \in DOMAIN IntVal
int(tok) == IntVal[tok]

\* the literals float() accepts beyond the integer ones, in hundredths
FracVal == ("80.25" :> 8025)

\* float(tok), in hundredths: a float is modelled by its value times 100
is_float(tok) == tok \in DOMAIN IntVal \/ tok \in DOMAIN FracVal
float(tok) == IF tok \in DOMAIN IntVal THEN 100 * IntVal[tok] ELSE FracVal[tok]

\* tok.split('=', 1) for the tokens of the vocabulary that contain '='
SplitEq == ("weight=x" :> <<"weight", "x">>) @@ ("weight=80" :> <<"weight", "80">>) @@
           ("bench=5" :> <<"bench", "5">>) @@ ("squat=4" :> <<"squat", "4">>) @@
           ("bench=80" :> <<"bench", "80">>) @@ ("bench=80.25" :> <<"bench", "80.25">>) @@
           ("squat=80" :> <<"squat", "80">>) @@ ("row=3" :> <<"row", "3">>) @@
           ("name=crea" :> <<"name", "crea">>) @@ ("dose=5g" :> <<"dose", "5g">>) @@
           ("before=1" :> <<"before", "1">>) @@ ("before=x" :> <<"before", "x">>) @@
           ("after=1" :> <<"after", "1">>) @@ ("after=2" :> <<"after", "2">>)

has_eq(tok) == tok \in DOMAIN SplitEq

\* the value the dict built from the k=v tokens of args holds for key, <<>> if none;
\* with numeric TRUE a token whose value float() rejects is skipped (cmd_init's try/except);
\* a later token overrides an earlier one
RECURSIVE dict_get(_, _, _)
dict_get(args, key, numeric) ==
    IF args = <<>> THEN NULL
    ELSE LET tok == args[Len(args)]
         IN  IF has_eq(tok) /\ SplitEq[tok][1] = key /\ (numeric => is_float(SplitEq[tok][2]))
             THEN Some(SplitEq[tok][2])
             ELSE dict_get(SubSeq(args, 1, Len(args) - 1), key, numeric)

\* ' '.join(args)
RECURSIVE join(_)
join(args) ==
    IF args = <<>> THEN ""
    ELSE IF Len(args) = 1 THEN args[1]
    ELSE args[1] \o " " \o join(Tail(args))

\* raw.split('|') for the texts of the vocabulary
split_bar(raw) ==
    CASE raw = "run|5|2026-01-01" -> <<"run", "5", "2026-01-01">>
      [] raw = "run|x|2026-01-01" -> <<"run", "x", "2026-01-01">>
      [] raw = "run|5"            -> <<"run", "5">>
      [] OTHER                    -> <<raw>>

(* ------------------------------ replies ------------------------------- *)
Text(t) == [method |-> "reply_text", text |-> t, data |-> <<>>]
TextWith(t, d) == [method |-> "reply_text", text |-> t, data |-> d]
Photo(d) == [method |-> "reply_photo", text |-> "", data |-> d]
Document == [method |-> "reply_document", text |-> "", data |-> <<>>]

(* ------------------------- command handlers --------------------------- *)
\* the webhook receives the update and process_update dispatches it to its handler
Receive(u, cmd, args) ==
    /\ loop = "idle"
    /\ update' = Some([user |-> u, cmd |-> cmd, args |-> args])
    /\ budget > 0
    /\ budget' = budget - 1
    /\ loop' = "running"
    /\ clock' = 0
    /\ UNCHANGED <<today, planArg, planOut>>

NoTimerCalls ==
    calls' = {} /\ stopped' = NULL /\ UNCHANGED <<USER_TIMER_TASKS, orphans, freezeLog>>

cmd_start(u, args) ==
    /\ Receive(u, "start", args)
    /\ users' = ensure_user(users, u, "user")
    /\ plans' = IF get_plan_start(u) = NULL THEN [plans EXCEPT ![u] = Some(today)] ELSE plans
    /\ replies' = <<Text("welcome")>>
    /\ NoTimerCalls
    /\ UNCHANGED <<init_stats, measurements, steps, supplements, goals, integrations>>

cmd_help(u, args) ==
    /\ Receive(u, "help", args)
    /\ replies' = <<Text("help")>>
    /\ NoTimerCalls
    /\ UNCHANGED db

init_arg(args, key) ==
    LET v == dict_get(args, key, TRUE) IN IF v = NULL THEN 0 ELSE float(v[1])

cmd_init(u, args) ==
    /\ Receive(u, "init", args)
    /\ IF args = <<>>
       THEN /\ replies' = <<Text("init_format")>>
            /\ UNCHANGED init_stats
       ELSE /\ init_stats' = [init_stats EXCEPT ![u] =
                 Some([weight |-> init_arg(args, "weight"), height |-> init_arg(args, "height"),
                       bench |-> init_arg(args, "bench"), squat |-> init_arg(args, "squat"),
                       row |-> init_arg(args, "row"), curl |-> init_arg(args, "curl")])]
            /\ replies' = <<Text("init_saved")>>
    /\ NoTimerCalls
    /\ UNCHANGED <<users, plans, measurements, steps, supplements, goals, integrations>>

cmd_plan(u, args) ==
    /\ Receive(u, "plan", args)
    /\ replies' = <<TextWith("plan", make_30day_plan(plan_start_or_today(u)))>>
    /\ NoTimerCalls
    /\ UNCHANGED db

\* the row of the plan dated today, <<>> if none
plan_today(u) ==
    LET pl == make_30day_plan(plan_start_or_today(u))
        hit == {i \in 1..Len(pl) : pl[i].d = today}
    IN  IF hit = {} THEN NULL ELSE Some(pl[CHOOSE i \in hit : \A j \in hit : i <= j])

\* mutant: the freeze ends a day early (< for <=)
is_frozen_strict(u) ==
    /\ users[u] # NULL
    /\ users[u][1].frozen_until # NULL
    /\ today < users[u][1].frozen_until[1]

\* cmd_today's test of the stored frozen_until
is_frozen(u) ==
    /\ users[u] # NULL
    /\ users[u][1].frozen_until # NULL
    /\ today <= users[u][1].frozen_until[1]

\* (d - (get_plan_start(user.id) or date.today())).days // 7
weeks_of(u, d) == (d - plan_start_or_today(u)) \div 7

\* the lines cmd_today adds under the headline of a strength day
strength_lines(u, name, weeks) ==
    LET exs == STRENGTH_SPLITS[split_last(name)]
    IN  [i \in 1..Len(exs) |->
            [ex |-> exs[i][1], sets |-> exs[i][2], reps |-> exs[i][3],
             unit |-> IF exs[i][1] = "Plank" THEN "sec" ELSE "reps",
             w |-> IF exs[i][1] = "Plank" THEN NULL
                   ELSE shown_weight(exercise_weight(init_stats[u], exs[i][1], weeks))]]

\* the line cmd_today adds under the headline of a cardio day
cardio_lines(name, weeks) ==
    << [ex |-> name, minutes |-> cardio_minutes(cardio_base(name), weeks)] >>

today_reply(u) ==
    IF is_frozen(u) THEN TextWith("frozen", users[u][1].frozen_until)
    ELSE IF plan_today(u) = NULL THEN Text("rest_day")
    ELSE LET e == plan_today(u)[1]
             weeks == weeks_of(u, e.d)
         IN  TextWith("today", <<e.d, e.wtype, e.name, weeks,
                                 IF e.wtype = "strength" THEN strength_lines(u, e.name, weeks)
                                 ELSE cardio_lines(e.name, weeks)>>)

cmd_today(u, args) ==
    /\ Receive(u, "today", args)
    /\ replies' = <<today_reply(u)>>
    /\ NoTimerCalls
    /\ UNCHANGED db

cmd_measure(u, args) ==
    /\ Receive(u, "measure", args)
    /\ IF Len(args) # 5
       THEN /\ replies' = <<Text("measure_format")>>
            /\ UNCHANGED measurements
       ELSE IF \E i \in 1..5 : ~is_float(args[i])
       THEN /\ replies' = <<Text("measure_bad_number")>>
            /\ UNCHANGED measurements
       ELSE LET weight == float(args[1])
                waist  == float(args[2])
                chest  == float(args[3])
                hips   == float(args[4])
                butt   == float(args[5])
            IN  /\ measurements' = log_measurement(measurements, u, waist, hips, chest, butt, weight)
                /\ replies' = <<Text("measure_saved")>>
    /\ NoTimerCalls
    /\ UNCHANGED <<users, plans, init_stats, steps, supplements, goals, integrations>>

cmd_steps(u, args) ==
    /\ Receive(u, "steps", args)
    /\ IF args = <<>>
       THEN /\ replies' = <<Text("steps_format")>>
            /\ UNCHANGED steps
       ELSE IF ~is_int(args[1])
       THEN /\ replies' = <<Text("steps_bad_number")>>
            /\ UNCHANGED steps
       ELSE /\ steps' = log_steps(steps, u, int(args[1]), today)
            /\ replies' = <<Text("steps_saved")>>
    /\ NoTimerCalls
    /\ UNCHANGED <<users, plans, init_stats, measurements, supplements, goals, integrations>>

EpochDay == -20000

period_start(period) ==
    CASE period = "week"  -> today - 7
      [] period = "month" -> today - 30
      [] period = "all"   -> EpochDay
      [] OTHER            -> today - 7

\* the dates of the rows cmd_progress selects; workouts and entries are never written,
\* so the calories query selects nothing
progress_dates(u, metric, period) ==
    IF metric \in {"weight", "waist", "hips", "chest", "butt"}
    THEN {k[2] : k \in {x \in DOMAIN measurements : x[1] = u /\ x[2] >= period_start(period)}}
    ELSE IF metric = "steps"
    THEN {k[2] : k \in {x \in DOMAIN steps : x[1] = u /\ x[2] >= period_start(period)}}
    ELSE {}

cmd_progress(u, args) ==
    /\ Receive(u, "progress", args)
    /\ replies' =
         IF Len(args) < 1 THEN <<Text("progress_format")>>
         ELSE LET metric == args[1]
                  period == IF Len(args) > 1 THEN args[2] ELSE "week"
              IN  IF metric \notin {"weight", "waist", "hips", "chest", "butt", "steps", "calories"}
                  THEN <<Text("progress_unknown_metric")>>
                  ELSE IF progress_dates(u, metric, period) = {}
                  THEN <<Text("progress_no_data")>>
                  ELSE <<Photo(<<metric, period, progress_dates(u, metric, period)>>)>>
    /\ NoTimerCalls
    /\ UNCHANGED db

Max(a, b) == IF a >= b THEN a ELSE b

\* the names of the user's supplements with enabled = 1
enabled_supps(u) ==
    {k[2] : k \in {x \in DOMAIN supplements : x[1] = u /\ supplements[x].enabled = 1}}

pre_requests(u) ==
    {[name |-> "supp_pre_" \o n, seconds |-> Max(1, supplements[<<u, n>>].when_before_min * 60),
      msg |-> <<"supp_pre", n, supplements[<<u, n>>].dose, supplements[<<u, n>>].when_before_min>>] :
        n \in {m \in enabled_supps(u) : supplements[<<u, m>>].when_before_min > 0}}

post_requests(u) ==
    {[name |-> "supp_post_" \o n, seconds |-> Max(1, supplements[<<u, n>>].when_after_min * 60),
      msg |-> <<"supp_post", n, supplements[<<u, n>>].dose>>] :
        n \in {m \in enabled_supps(u) : supplements[<<u, m>>].when_after_min > 0}}

training_seconds(wtype) == (IF wtype = "cardio" THEN 60 ELSE 10 + 50 + 10) * 60

cmd_start_training(u, args) ==
    /\ Receive(u, "start_training", args)
    /\ IF plan_today(u) = NULL
       THEN /\ replies' = <<Text("rest_day")>>
            /\ calls' = {}
            /\ UNCHANGED USER_TIMER_TASKS
       ELSE LET seconds == training_seconds(plan_today(u)[1].wtype)
                ok == start_ok(USER_TIMER_TASKS, u, "training")
                T1 == start_user_timer(USER_TIMER_TASKS, u, "training", seconds, <<"training_done">>)
            IN  IF ~ok
                THEN /\ replies' = <<Text("training_already_running")>>
                     /\ calls' = {CallRecord(USER_TIMER_TASKS, u, "training", seconds)}
                     /\ USER_TIMER_TASKS' = T1
                ELSE /\ USER_TIMER_TASKS' = StartAll(StartAll(T1, u, pre_requests(u)), u, post_requests(u))
                     /\ calls' = {CallRecord(USER_TIMER_TASKS, u, "training", seconds)} \cup
                                 {CallRecord(USER_TIMER_TASKS, u, r.name, r.seconds) :
                                     r \in pre_requests(u) \cup post_requests(u)}
                     /\ replies' = <<TextWith("training_started", <<seconds \div 60>>)>>
    /\ stopped' = NULL
    /\ UNCHANGED <<orphans, freezeLog>>
    /\ UNCHANGED db

\* cmd_rest and cmd_cardio_timer: int(context.args[0]) raises ValueError outside any try
minutes_timer(u, cmd, args, default, timer_name, msg, started, running) ==
    /\ Receive(u, cmd, args)
    /\ IF args # <<>> /\ ~is_int(args[1])
       THEN /\ replies' = <<>>
            /\ calls' = {}
            /\ UNCHANGED USER_TIMER_TASKS
       ELSE LET mins == IF args # <<>> THEN int(args[1]) ELSE default
            IN  /\ USER_TIMER_TASKS' = start_user_timer(USER_TIMER_TASKS, u, timer_name, mins * 60, msg)
                /\ calls' = {CallRecord(USER_TIMER_TASKS, u, timer_name, mins * 60)}
                /\ replies' = IF start_ok(USER_TIMER_TASKS, u, timer_name)
                              THEN <<TextWith(started, <<mins>>)>>
                              ELSE <<Text(running)>>
    /\ stopped' = NULL
    /\ UNCHANGED <<orphans, freezeLog>>
    /\ UNCHANGED db

cmd_rest(u, args) ==
    minutes_timer(u, "start_rest", args, 90, "rest", <<"rest_done">>,
                  "rest_started", "rest_already_running")

cmd_cardio_timer(u, args) ==
    minutes_timer(u, "start_cardio", args, 10, "cardio_block", <<"cardio_done">>,
                  "cardio_started", "cardio_already_running")

cmd_stop_timer(u, args) ==
    /\ Receive(u, "stop_timer", args)
    /\ LET name == IF args # <<>> THEN Some(args[1]) ELSE NULL
       IN  /\ USER_TIMER_TASKS' = stop_user_timer(USER_TIMER_TASKS, u, name)
           /\ orphans' = orphans \cup stop_orphans(USER_TIMER_TASKS, u, name)
           /\ stopped' = Some(stop_names(USER_TIMER_TASKS, u, name))
           /\ replies' = IF stop_names(USER_TIMER_TASKS, u, name) = {}
                         THEN <<Text("no_active_timers")>>
                         ELSE <<TextWith("stopped", <<stop_names(USER_TIMER_TASKS, u, name)>>)>>
    /\ calls' = {}
    /\ UNCHANGED freezeLog
    /\ UNCHANGED db

cmd_freeze(u, args) ==
    /\ Receive(u, "freeze", args)
    /\ IF args = <<>>
       THEN /\ replies' = <<Text("freeze_usage")>>
            /\ calls' = {}
            /\ UNCHANGED <<users, USER_TIMER_TASKS, freezeLog>>
       ELSE IF ~is_int(args[1])
       THEN /\ replies' = <<Text("freeze_bad_number")>>
            /\ calls' = {}
            /\ UNCHANGED <<users, USER_TIMER_TASKS, freezeLog>>
       ELSE LET days == int(args[1])
                until == today + days
            IN  /\ users' = [users EXCEPT ![u] = Some([username |-> NULL, frozen_until |-> Some(until)])]
                /\ USER_TIMER_TASKS' = start_user_timer(USER_TIMER_TASKS, u, "freeze_return",
                                                        days * 24 * 3600, <<"freeze_over">>)
                /\ calls' = {CallRecord(USER_TIMER_TASKS, u, "freeze_return", days * 24 * 3600)}
                /\ replies' = <<TextWith("frozen_until", <<until>>)>>
                /\ freezeLog' = [freezeLog EXCEPT ![u] = Some([day |-> today, days |-> days])]
    /\ stopped' = NULL
    /\ UNCHANGED orphans
    /\ UNCHANGED <<plans, init_stats, measurements, steps, supplements, goals, integrations>>

cmd_resume(u, args) ==
    /\ Receive(u, "resume", args)
    /\ users' = IF users[u] # NULL THEN [users EXCEPT ![u] = Some([@[1] EXCEPT !.frozen_until = NULL])]
                ELSE users
    /\ USER_TIMER_TASKS' = stop_user_timer(USER_TIMER_TASKS, u, Some("freeze_return"))
    /\ orphans' = orphans \cup stop_orphans(USER_TIMER_TASKS, u, Some("freeze_return"))
    /\ stopped' = Some(stop_names(USER_TIMER_TASKS, u, Some("freeze_return")))
    /\ replies' = <<Text("resumed")>>
    /\ calls' = {}
    /\ freezeLog' = [freezeLog EXCEPT ![u] = NULL]
    /\ UNCHANGED <<plans, init_stats, measurements, steps, supplements, goals, integrations>>

\* params.get(key, default) of cmd_supp_add
supp_param(args, key, default) ==
    LET v == dict_get(args, key, FALSE) IN IF v = NULL THEN default ELSE v[1]

\* params.get('name') or params.get('0')
supp_name(args) ==
    IF supp_param(args, "name", "") # "" THEN supp_param(args, "name", "")
    ELSE supp_param(args, "0", "")

\* int(params.get('before', '0')) and int(params.get('after', '0')) raise ValueError
\* outside any try
cmd_supp_add(u, args) ==
    /\ Receive(u, "supp_add", args)
    /\ IF supp_name(args) = ""
       THEN /\ replies' = <<Text("supp_name_missing")>>
            /\ UNCHANGED supplements
       ELSE IF ~is_int(supp_param(args, "before", "0")) \/ ~is_int(supp_param(args, "after", "0"))
       THEN /\ replies' = <<>>
            /\ UNCHANGED supplements
       ELSE /\ supplements' = Upsert(supplements, <<u, supp_name(args)>>,
                                     [dose |-> supp_param(args, "dose", ""),
                                      when_before_min |-> int(supp_param(args, "before", "0")),
                                      when_after_min |-> int(supp_param(args, "after", "0")),
                                      enabled |-> 1])
            /\ replies' = <<Text("supp_saved")>>
    /\ NoTimerCalls
    /\ UNCHANGED <<users, plans, init_stats, measurements, steps, goals, integrations>>

cmd_supps(u, args) ==
    /\ Receive(u, "supps", args)
    /\ LET rows == {x \in DOMAIN supplements : x[1] = u}
       IN  replies' = IF rows = {} THEN <<Text("no_supps")>>
                      ELSE <<TextWith("supps", <<[k \in rows |-> supplements[k]]>>)>>
    /\ NoTimerCalls
    /\ UNCHANGED db

cmd_supp_recommend(u, args) ==
    /\ Receive(u, "supp_recommend", args)
    /\ replies' = <<Text("supp_recommend")>>
    /\ NoTimerCalls
    /\ UNCHANGED db

cmd_mi_connect(u, args) ==
    /\ Receive(u, "mi_connect", args)
    /\ IF Len(args) < 2
       THEN /\ replies' = <<Text("mi_connect_format")>>
            /\ UNCHANGED integrations
       ELSE /\ integrations' = Upsert(integrations, <<u, args[1]>>, args[2])
            /\ replies' = <<Text("mi_saved")>>
    /\ NoTimerCalls
    /\ UNCHANGED <<users, plans, init_stats, measurements, steps, supplements, goals>>

\* what the provider may answer: no usable answer (None), a document without 'steps', a
\* document whose 'steps' holds one record, with or without a date
MiResponses ==
    {NULL, Some([steps |-> NULL]),
     Some([steps |-> Some(<<[count |-> 2, date |-> Some(today)]>>)]),
     Some([steps |-> Some(<<[count |-> 2, date |-> NULL]>>)])}

\* the values fetch_mi_data can return: fetchone picks one of the user's integrations
fetch_mi_data(u) ==
    LET providers == {k[2] : k \in {x \in DOMAIN integrations : x[1] = u}}
    IN  IF providers = {} THEN {NULL}
        ELSE UNION {IF p = "thryve" THEN MiResponses ELSE {NULL} : p \in providers}

\* log_steps for each record; a record without a date raises inside the try and is skipped
RECURSIVE sync_steps(_, _, _)
sync_steps(tbl, u, recs) ==
    IF recs = <<>> THEN tbl
    ELSE sync_steps(IF Head(recs).date = NULL THEN tbl
                    ELSE log_steps(tbl, u, Head(recs).count, Head(recs).date[1]),
                    u, Tail(recs))

cmd_mi_sync(u, args) ==
    /\ Receive(u, "mi_sync", args)
    /\ \E data \in fetch_mi_data(u) :
         IF data = NULL
         THEN /\ replies' = <<Text("mi_no_data")>>
              /\ UNCHANGED steps
         ELSE /\ steps' = IF data[1].steps # NULL THEN sync_steps(steps, u, data[1].steps[1]) ELSE steps
              /\ replies' = <<Text("mi_synced")>>
    /\ NoTimerCalls
    /\ UNCHANGED <<users, plans, init_stats, measurements, supplements, goals, integrations>>

cmd_set_goal(u, args) ==
    /\ Receive(u, "set_goal", args)
    /\ IF args = <<>>
       THEN /\ replies' = <<Text("set_goal_format")>>
            /\ UNCHANGED goals
       ELSE LET parts == split_bar(join(args))
            IN  IF Len(parts) # 3 \/ ~is_float(parts[2])
                THEN /\ replies' = <<Text("set_goal_error")>>
                     /\ UNCHANGED goals
                ELSE /\ goals' = Append(goals, [user_id |-> u, goal_text |-> parts[1],
                                                target_value |-> float(parts[2]),
                                                target_date |-> parts[3], active |-> 1])
                     /\ replies' = <<Text("goal_saved")>>
    /\ NoTimerCalls
    /\ UNCHANGED <<users, plans, init_stats, measurements, steps, supplements, integrations>>

cmd_sleep(u, args) ==
    /\ Receive(u, "sleep", args)
    /\ replies' = IF args = <<>> THEN <<Text("sleep_format")>>
                  ELSE IF ~is_float(args[1]) THEN <<Text("sleep_bad_number")>>
                  ELSE <<TextWith("sleep_saved", <<float(args[1])>>)>>
    /\ NoTimerCalls
    /\ UNCHANGED db

cmd_cheatmeal(u, args) ==
    /\ Receive(u, "cheatmeal", args)
    /\ replies' = <<Text("cheatmeal")>>
    /\ NoTimerCalls
    /\ UNCHANGED db

\* reply_document either succeeds or raises, and then the error text is the reply
cmd_export_db(u, args) ==
    /\ Receive(u, "export_db", args)
    /\ \E sent \in BOOLEAN : replies' = IF sent THEN <<Document>> ELSE <<Text("export_error")>>
    /\ NoTimerCalls
    /\ UNCHANGED db

(* ------------------------- inputs of the model ------------------------ *)
NoArgs == {<<>>}
InitArgs == {<<>>, <<"weight=x">>, <<"weight=80", "bench=5">>}
MeasureArgs == {<<>>, <<"1", "2", "3", "4", "5">>, <<"1", "2", "3", "4", "x">>}
StepsArgs == {<<>>, <<"x">>, <<"2">>}
ProgressArgs == {<<>>, <<"weight">>, <<"steps", "all">>, <<"calories">>, <<"mood">>}
RestArgs == {<<>>, <<"0">>, <<"1">>, <<"x">>}
CardioArgs == {<<>>, <<"1">>, <<"x">>}
StopArgs == {<<>>, <<"rest">>, <<"training">>}
FreezeArgs == {<<>>, <<"x">>, <<"-1">>, <<"0">>, <<"1">>, <<"2">>}
SuppArgs == {<<>>, <<"name=crea", "before=1", "after=1">>, <<"name=crea", "dose=5g", "after=2">>,
             <<"name=crea", "before=x">>}
MiConnectArgs == {<<>>, <<"thryve", "key">>, <<"rook", "key">>}
GoalArgs == {<<>>, <<"run|5|2026-01-01">>, <<"run|x|2026-01-01">>, <<"run|5">>}
SleepArgs == {<<>>, <<"x">>, <<"5">>}

(* --------------------------- specifications --------------------------- *)
EmptyDB ==
    /\ users = [u \in Users |-> NULL]
    /\ plans = [u \in Users |-> NULL]
    /\ init_stats = [u \in Users |-> NULL]
    /\ measurements = <<>>
    /\ steps = <<>>
    /\ supplements = <<>>
    /\ goals = <<>>
    /\ integrations = <<>>

\* the process has just been started: no timers, no update yet
Started ==
    /\ USER_TIMER_TASKS = <<>>
    /\ orphans = {}
    /\ loop = "idle"
    /\ clock = 0
    /\ update = NULL
    /\ replies = <<>>
    /\ calls = {}
    /\ stopped = NULL
    /\ freezeLog = [u \in Users |-> NULL]

NoPlanCall == planArg = 0 /\ planOut = <<>>

Init ==
    /\ today = 0
    /\ budget = MaxUpdates
    /\ EmptyDB
    /\ Started
    /\ NoPlanCall

EventLoop == TimerWake \/ TimerTransmit \/ TimerDone \/ Tick \/ RunReturns

Next ==
    \/ \E u \in MainUsers, a \in NoArgs : cmd_start(u, a)
    \/ \E u \in MainUsers, a \in NoArgs : cmd_help(u, a)
    \/ \E u \in MainUsers, a \in InitArgs : cmd_init(u, a)
    \/ \E u \in MainUsers, a \in NoArgs : cmd_plan(u, a)
    \/ \E u \in MainUsers, a \in NoArgs : cmd_today(u, a)
    \/ \E u \in MainUsers, a \in MeasureArgs : cmd_measure(u, a)
    \/ \E u \in MainUsers, a \in StepsArgs : cmd_steps(u, a)
    \/ \E u \in MainUsers, a \in ProgressArgs : cmd_progress(u, a)
    \/ \E u \in MainUsers, a \in NoArgs : cmd_start_training(u, a)
    \/ \E u \in MainUsers, a \in RestArgs : cmd_rest(u, a)
    \/ \E u \in MainUsers, a \in CardioArgs : cmd_cardio_timer(u, a)
    \/ \E u \in MainUsers, a \in StopArgs : cmd_stop_timer(u, a)
    \/ \E u \in MainUsers, a \in FreezeArgs : cmd_freeze(u, a)
    \/ \E u \in MainUsers, a \in NoArgs : cmd_resume(u, a)
    \/ \E u \in MainUsers, a \in SuppArgs : cmd_supp_add(u, a)
    \/ \E u \in MainUsers, a \in NoArgs : cmd_supps(u, a)
    \/ \E u \in MainUsers, a \in NoArgs : cmd_supp_recommend(u, a)
    \/ \E u \in MainUsers, a \in MiConnectArgs : cmd_mi_connect(u, a)
    \/ \E u \in MainUsers, a \in NoArgs : cmd_mi_sync(u, a)
    \/ \E u \in MainUsers, a \in GoalArgs : cmd_set_goal(u, a)
    \/ \E u \in MainUsers, a \in SleepArgs : cmd_sleep(u, a)
    \/ \E u \in MainUsers, a \in NoArgs : cmd_cheatmeal(u, a)
    \/ \E u \in MainUsers, a \in NoArgs : cmd_export_db(u, a)
    \/ EventLoop
    \/ AdvanceDay(MaxDay)

Spec == Init /\ [][Next]_vars

(* The calendar commands of one user, on a database that may already hold the plan an   *)
(* earlier /start stored: today, or PlanDays - 1 to MaxPlanAge days before day 0         *)
CalUsers == {1}
PlanAges == {0} \cup ((PlanDays - 1)..MaxPlanAge)

CalInit ==
    /\ today = 0
    /\ budget = MaxCalUpdates
    /\ \E registered \in SUBSET CalUsers :
          /\ users = [u \in Users |-> IF u \in registered
                                      THEN Some([username |-> Some("user"), frozen_until |-> NULL])
                                      ELSE NULL]
          /\ plans \in [Users -> {NULL} \cup {Some(0 - a) : a \in PlanAges}]
          /\ \A u \in Users : plans[u] # NULL <=> u \in registered
    /\ init_stats = [u \in Users |-> NULL]
    /\ measurements = <<>>
    /\ steps = <<>>
    /\ supplements = <<>>
    /\ goals = <<>>
    /\ integrations = <<>>
    /\ Started
    /\ NoPlanCall

\* the timers of these commands sleep 0 seconds or less (/freeze N, N <= 0) or an hour and
\* more: none falls due later within MaxLoopSeconds, so Tick is never enabled
CalEventLoop == TimerWake \/ TimerTransmit \/ TimerDone \/ RunReturns

CalNext ==
    \/ \E u \in CalUsers, a \in NoArgs : cmd_start(u, a)
    \/ \E u \in CalUsers, a \in NoArgs : cmd_today(u, a)
    \/ \E u \in CalUsers, a \in NoArgs : cmd_start_training(u, a)
    \/ \E u \in CalUsers, a \in FreezeArgs : cmd_freeze(u, a)
    \/ \E u \in CalUsers, a \in NoArgs : cmd_resume(u, a)
    \/ CalEventLoop
    \/ AdvanceDay(MaxCalDay)

CalSpec == CalInit /\ [][CalNext]_vars

(* make_30day_plan called directly on every start date up to MaxStart *)
PlanInit ==
    /\ planArg \in 0..MaxStart
    /\ planOut = <<>>
    /\ today = 0
    /\ budget = 0
    /\ EmptyDB
    /\ Started

PlanCall ==
    /\ planOut = <<>>
    /\ planOut' = make_30day_plan(planArg)
    /\ UNCHANGED <<today, db, USER_TIMER_TASKS, orphans, loop, clock, update, replies, calls,
                   stopped, budget, freezeLog, planArg>>

PlanSpec == PlanInit /\ [][PlanCall]_vars

(* /init and /today of one user whose plan started up to MaxProgAge days before day 0:  *)
(* the weeks of the plan, 0 to 4, with the baselines /init stores                       *)
ProgUsers == {1}
ProgInitArgs == {<<"bench=80", "squat=80", "row=3">>, <<"bench=80.25">>,
                 <<"squat=4", "bench=5">>, <<"weight=80", "bench=5">>}

ProgInit ==
    /\ today = 0
    /\ budget = MaxProgUpdates
    /\ users = [u \in Users |-> IF u \in ProgUsers
                                THEN Some([username |-> Some("user"), frozen_until |-> NULL])
                                ELSE NULL]
    /\ \E a \in 0..MaxProgAge :
          plans = [u \in Users |-> IF u \in ProgUsers THEN Some(0 - a) ELSE NULL]
    /\ init_stats = [u \in Users |-> NULL]
    /\ measurements = <<>>
    /\ steps = <<>>
    /\ supplements = <<>>
    /\ goals = <<>>
    /\ integrations = <<>>
    /\ Started
    /\ NoPlanCall

ProgNext ==
    \/ \E u \in ProgUsers, a \in ProgInitArgs : cmd_init(u, a)
    \/ \E u \in ProgUsers, a \in NoArgs : cmd_today(u, a)
    \/ RunReturns
    \/ AdvanceDay(MaxProgDay)

ProgSpec == ProgInit /\ [][ProgNext]_vars

(* The timer commands of two users: each starts timers under the same names and stops   *)
(* them, by name or all at once                                                         *)
StopRestArgs == {<<"0">>, <<"1">>}

StopInit ==
    /\ today = 0
    /\ budget = MaxStopUpdates
    /\ EmptyDB
    /\ Started
    /\ NoPlanCall

StopNext ==
    \/ \E u \in Users, a \in StopRestArgs : cmd_rest(u, a)
    \/ \E u \in Users, a \in NoArgs : cmd_cardio_timer(u, a)
    \/ \E u \in Users, a \in StopArgs : cmd_stop_timer(u, a)
    \/ EventLoop

StopSpec == StopInit /\ [][StopNext]_vars

(* ------------------------------- claims ------------------------------- *)
PlanWindow == planArg .. (planArg + 29)

\* the Mondays whose whole Monday-Saturday week lies in the window
FullWeeks == {m \in PlanWindow : weekday(m) = 0 /\ m + 5 <= planArg + 29}

CountIn(m, wtype) ==
    Cardinality({i \in 1..Len(planOut) :
                    planOut[i].d \in m..(m + 5) /\ planOut[i].wtype = wtype})

\* C4: for every start date make_30day_plan returns entries with strictly increasing dates
\* inside [start, start+29], exactly one for each non-Sunday date of the window and none on
\* a Sunday; Monday/Wednesday/Friday entries are strength and Tuesday/Thursday/Saturday
\* entries are cardio, so consecutive entries alternate between strength and cardio and
\* every complete Monday-Saturday week of the window holds 3 strength and 3 cardio sessions.
C4_PlanShape ==
    planOut # <<>> =>
        /\ \A i \in 1..Len(planOut) : planOut[i].d \in PlanWindow
        /\ \A i \in 1..(Len(planOut) - 1) : planOut[i].d < planOut[i + 1].d
        /\ \A d \in PlanWindow :
              Cardinality({i \in 1..Len(planOut) : planOut[i].d = d}) =
                  IF weekday(d) = 6 THEN 0 ELSE 1
        /\ \A i \in 1..Len(planOut) :
              planOut[i].wtype = IF weekday(planOut[i].d) \in {0, 2, 4} THEN "strength" ELSE "cardio"
        /\ \A i \in 1..(Len(planOut) - 1) : planOut[i].wtype # planOut[i + 1].wtype
        /\ \A m \in FullWeeks : CountIn(m, "strength") = 3 /\ CountIn(m, "cardio") = 3

\* a plan was computed for a window that starts in mid-week and holds full weeks
C4_Witness ==
    /\ planOut # <<>>
    /\ weekday(planArg) = 3
    /\ FullWeeks # {}
    /\ \E i \in 1..(Len(planOut) - 1) : planOut[i + 1].d = planOut[i].d + 2

\* a step in which a handler runs
HandlerStep == budget' # budget

\* C1 (as amended): timers are first-write-wins per name: when start_user_timer is called for
\* a (user, timer name) that already has an entry in the timer table, it returns False and
\* leaves the entry as it was; the earlier timer, not the newly requested one, stays.
C1_FirstWriteWins ==
    [][HandlerStep =>
          \A c \in calls' :
              timer_exists(USER_TIMER_TASKS, c.user, c.name) =>
                  /\ ~c.ok
                  /\ timer_exists(USER_TIMER_TASKS', c.user, c.name)
                  /\ USER_TIMER_TASKS'[c.user][c.name] = USER_TIMER_TASKS[c.user][c.name]]_vars

\* a handler has called start_user_timer with another delay for a name that has an entry
C1_Witness ==
    \E c \in calls :
        /\ c.existed
        /\ timer_exists(USER_TIMER_TASKS, c.user, c.name)
        /\ USER_TIMER_TASKS[c.user][c.name].seconds # c.seconds

\* C1 (as stated): when start_user_timer is called for a (user, timer name) that already has
\* an entry, the entry for that name is afterwards the newly requested timer, with its delay.
C1_LastWriteWins ==
    [][HandlerStep =>
          \A c \in calls' :
              timer_exists(USER_TIMER_TASKS, c.user, c.name) =>
                  /\ timer_exists(USER_TIMER_TASKS', c.user, c.name)
                  /\ USER_TIMER_TASKS'[c.user][c.name].seconds = c.seconds
                  /\ USER_TIMER_TASKS'[c.user][c.name].state = "sleeping"]_vars

\* every task the program has created and still knows of
AllTasks == {USER_TIMER_TASKS[k[1]][k[2]] : k \in Tasks} \cup {o.task : o \in orphans}

\* between two updates every task has ended, and stop_user_timer, which runs before the
\* handler's first await, never pops a task that is still pending
TasksEndWithTheirUpdate ==
    /\ orphans = {}
    /\ loop = "idle" => \A t \in AllTasks : t.state = "done"

\* C2: every started timer sends at most one notification, its finish message or the
\* 'Timer <name> cancelled' notice, never both; a timer stop_user_timer cancelled while it
\* was pending sends no finish message.
C2_OneShot ==
    /\ \A t \in AllTasks : ~(t.finish_sent /\ t.cancel_sent)
    /\ \A o \in orphans : ~o.task.finish_sent

\* C3: a timer started by a command that arrived through the webhook and never stopped
\* delivers its finish message: once its task has ended, the finish message has been sent.
C3_FinishDelivered ==
    \A k \in Tasks :
        USER_TIMER_TASKS[k[1]][k[2]].state = "done" => USER_TIMER_TASKS[k[1]][k[2]].finish_sent

\* the update carries a token where a number is required and int() / float() rejects it
Unparseable(upd) ==
    \/ upd.cmd \in {"start_rest", "start_cardio", "steps", "freeze"}
          /\ upd.args # <<>> /\ ~is_int(upd.args[1])
    \/ upd.cmd = "sleep" /\ upd.args # <<>> /\ ~is_float(upd.args[1])
    \/ upd.cmd = "measure" /\ Len(upd.args) = 5 /\ \E i \in 1..5 : ~is_float(upd.args[i])
    \/ upd.cmd = "init"
          /\ \E i \in 1..Len(upd.args) :
                has_eq(upd.args[i]) /\ ~is_float(SplitEq[upd.args[i]][2])
    \/ upd.cmd = "supp_add"
          /\ \E i \in 1..Len(upd.args) :
                /\ has_eq(upd.args[i])
                /\ SplitEq[upd.args[i]][1] \in {"before", "after"}
                /\ ~is_int(SplitEq[upd.args[i]][2])
    \/ upd.cmd = "set_goal" /\ Len(split_bar(join(upd.args))) = 3
          /\ ~is_float(split_bar(join(upd.args))[2])

\* the format and error strings the handlers reply with
ErrorTexts == {"measure_bad_number", "steps_bad_number", "freeze_bad_number", "sleep_bad_number",
               "set_goal_error", "init_format", "measure_format", "steps_format",
               "freeze_usage", "sleep_format", "set_goal_format", "supp_name_missing"}

\* C7: for every command handler an argument that cannot be parsed results in an
\* error-string reply and leaves every database table and the timer table unchanged.
C7_ErrorReply ==
    [][HandlerStep /\ Unparseable(update'[1]) =>
          /\ Len(replies') = 1
          /\ replies'[1].text \in ErrorTexts
          /\ db' = db
          /\ USER_TIMER_TASKS' = USER_TIMER_TASKS]_vars

\* C8: every command update dispatched to a handler produces exactly one direct reply.
C8_ExactlyOneReply == update # NULL => Len(replies) = 1

\* C9: after '/measure a b c d e' with five numeric arguments the row stored for
\* (user, today) has waist=a, hips=b, chest=c, butt=d and weight=e.
C9_MeasureOrder ==
    (/\ loop = "running"
     /\ update # NULL
     /\ update[1].cmd = "measure"
     /\ Len(update[1].args) = 5
     /\ \A i \in 1..5 : is_float(update[1].args[i]))
    => /\ <<update[1].user, today>> \in DOMAIN measurements
       /\ measurements[<<update[1].user, today>>] =
             [waist |-> float(update[1].args[1]), hips |-> float(update[1].args[2]),
              chest |-> float(update[1].args[3]), butt |-> float(update[1].args[4]),
              weight |-> float(update[1].args[5])]

Delivered(u, timer_name) ==
    timer_exists(USER_TIMER_TASKS, u, timer_name) /\ USER_TIMER_TASKS[u][timer_name].finish_sent

\* C10: when /start_training starts the training timer for a user who has an enabled
\* supplement with before > 0 and after > 0, the pre-workout reminder has been delivered by
\* the time the training timer starts, and the post-workout reminder is delivered only
\* after the training timer's finish message.
C10_PrePost ==
    (/\ loop = "running"
     /\ update # NULL
     /\ update[1].cmd = "start_training"
     /\ \E c \in calls : c.name = "training" /\ c.ok)
    => \A n \in enabled_supps(update[1].user) :
          (/\ supplements[<<update[1].user, n>>].when_before_min > 0
           /\ supplements[<<update[1].user, n>>].when_after_min > 0)
          => /\ Delivered(update[1].user, "supp_pre_" \o n)
             /\ Delivered(update[1].user, "supp_post_" \o n) => Delivered(update[1].user, "training")

\* the user has run /start: a users row and a stored plan start
Registered(u) == users[u] # NULL /\ plans[u] # NULL

\* C5: the plan is rolling: for a registered, non-frozen user, on every non-Sunday date on
\* or after the stored plan start, however many days have passed since, /today replies
\* with a planned session and not with the rest-day message, and /start_training starts a
\* training timer.
C5_Rolling ==
    (/\ loop = "running"
     /\ update # NULL
     /\ Registered(update[1].user)
     /\ ~is_frozen(update[1].user)
     /\ weekday(today) # 6
     /\ today >= plans[update[1].user][1])
    => /\ update[1].cmd = "today" => replies = <<today_reply(update[1].user)>> /\ replies[1].text = "today"
       /\ update[1].cmd = "start_training" =>
             /\ \E c \in calls : c.name = "training" /\ c.ok
             /\ Len(replies) = 1 /\ replies[1].text = "training_started"

C6_WitnessResumed ==
    /\ loop = "running" /\ update # NULL /\ update[1].cmd = "today"
    /\ freezeLog[update[1].user] = NULL
    /\ users[update[1].user] # NULL
    /\ users[update[1].user][1].username = NULL
    /\ replies[1].text = "today"

\* the baseline and the percent (in tenths of a percent) of the exercises that have one
Baseline ==
    [ex \in {"Squat", "Front Squat / Lunge", "Deadlift", "Bench Press",
             "Incline Bench / DB Press", "Bent-over Row", "Seated Row"} |->
        IF ex \in {"Squat", "Front Squat / Lunge", "Deadlift"} THEN [stat |-> "squat", p |-> 50]
        ELSE IF ex \in {"Bench Press", "Incline Bench / DB Press"} THEN [stat |-> "bench", p |-> 25]
        ELSE [stat |-> "row", p |-> 25]]

\* /today has just answered with a strength day
ShowsStrength ==
    /\ loop = "running" /\ update # NULL /\ update[1].cmd = "today"
    /\ Len(replies) = 1 /\ replies[1].text = "today" /\ replies[1].data[3] \in
          {"Strength A", "Strength B", "Strength C"}

\* the exercise lines of that answer that have a baseline
BaselineLines == {i \in DOMAIN replies[1].data[5] : replies[1].data[5][i].ex \in DOMAIN Baseline}

\* the baseline of line i in hundredths of a kg, its percent, and the week of the plan
LineBase(i) == init_stats[update[1].user][1][Baseline[replies[1].data[5][i].ex].stat]
LinePercent(i) == Baseline[replies[1].data[5][i].ex].p
PlanWeek == (today - plans[update[1].user][1]) \div 7

\* s tenths of a kg is base * (1 + p/100)^w rounded to one decimal: a tenth nearest to it
RoundedTo(s, base, w, p) ==
    LET x == compound(base, w, p)
    IN  \/ s = x.q /\ 2 * x.r <= x.D
        \/ s = x.q + 1 /\ 2 * x.r >= x.D

\* C11 (as amended): for a user with stored stats, the weight /today shows for a strength
\* exercise is baseline * (1 + p/100)^w rounded to one decimal, w = floor((today - plan
\* start) / 7), p the exercise's percent (2.5 or 5), and no weight is shown only when that
\* rounds to 0.0; in week 0 it is the baseline rounded to one decimal, which is the
\* baseline itself when the baseline has at most one decimal; and for a non-negative
\* baseline it is not below the weight of the week before.
C11_Progression ==
    (ShowsStrength /\ init_stats[update[1].user] # NULL) =>
        \A i \in BaselineLines :
            LET line == replies[1].data[5][i]
                s    == IF line.w = NULL THEN 0 ELSE line.w[1]
            IN  /\ replies[1].data[4] = PlanWeek
                /\ PlanWeek >= 0
                /\ RoundedTo(s, LineBase(i), PlanWeek, LinePercent(i))
                /\ line.w # NULL => line.w[1] # 0
                /\ (PlanWeek = 0 /\ LineBase(i) % 10 = 0) => 10 * s = LineBase(i)
                /\ (PlanWeek > 0 /\ LineBase(i) >= 0)
                       => s >= progression(LineBase(i), PlanWeek - 1, LinePercent(i))

\* /today shows a compounded weight in week 2 or later: above the baseline, and above what
\* adding the percent once per week gives for the squat of 80 kg
C11_Witness ==
    /\ ShowsStrength /\ init_stats[update[1].user] # NULL
    /\ PlanWeek >= 2
    /\ \E i \in BaselineLines :
          /\ replies[1].data[5][i].w # NULL
          /\ LineBase(i) = 8000 /\ LinePercent(i) = 50
          /\ replies[1].data[5][i].w[1] > 800 + 40 * PlanWeek

\* C11 (original): the weight /today shows equals baseline * (1 + p/100)^w rounded to one
\* decimal, equals the baseline in week 0, and is non-decreasing in w for every
\* non-negative baseline.
C11_WeekZeroIsBaseline ==
    (ShowsStrength /\ init_stats[update[1].user] # NULL) =>
        \A i \in BaselineLines :
            LET line == replies[1].data[5][i]
            IN  line.w # NULL =>
                  /\ RoundedTo(line.w[1], LineBase(i), PlanWeek, LinePercent(i))
                  /\ (PlanWeek = 0 /\ LineBase(i) >= 0) => 10 * line.w[1] = LineBase(i)
                  /\ (PlanWeek > 0 /\ LineBase(i) >= 0)
                         => line.w[1] >= progression(LineBase(i), PlanWeek - 1, LinePercent(i))

\* the names of u's timers in the timer table T
TimerNames(T, u) == IF u \in DOMAIN T THEN DOMAIN T[u] ELSE {}

\* table T2 is table T on everything but the timers of user u
OthersUnchanged(T, T2, u) ==
    \A v \in Users \ {u} :
        /\ v \in DOMAIN T <=> v \in DOMAIN T2
        /\ v \in DOMAIN T => T2[v] = T[v]

\* C12: /stop_timer [name]: stop_user_timer(user, name) with a name removes and cancels only
\* that user's timer of that name and returns [name] if it existed, else returns [] and
\* changes nothing; with no name it removes and cancels all of that user's timers, returns
\* all their names and leaves the user's table empty; in both cases the timers of every
\* other user are unchanged.
C12_StopTimerFrame ==
    [][(HandlerStep /\ update'[1].cmd = "stop_timer") =>
          LET u    == update'[1].user
              args == update'[1].args
              T    == USER_TIMER_TASKS
              T2   == USER_TIMER_TASKS'
              gone == TimerNames(T, u) \ TimerNames(T2, u)
          IN  /\ OthersUnchanged(T, T2, u)
              /\ TimerNames(T2, u) \subseteq TimerNames(T, u)
              /\ \A n \in TimerNames(T2, u) : T2[u][n] = T[u][n]
              /\ stopped' = Some(gone)
              /\ \A n \in gone :
                    \/ T[u][n].state = "done"
                    \/ \E o \in orphans' : /\ o.user = u /\ o.name = n
                                            /\ o.task.state \in {"cancelling", "done"}
              /\ IF args = <<>> THEN gone = TimerNames(T, u)
                 ELSE IF args[1] \in TimerNames(T, u) THEN gone = {args[1]}
                 ELSE gone = {} /\ T2 = T]_vars

\* /stop_timer rest has stopped the user's rest timer and kept the user's cardio timer,
\* while the other user holds timers under both names
C12_Witness ==
    /\ update # NULL /\ update[1].cmd = "stop_timer" /\ update[1].args = <<"rest">>
    /\ stopped = Some({"rest"})
    /\ TimerNames(USER_TIMER_TASKS, update[1].user) = {"cardio_block"}
    /\ \E v \in Users \ {update[1].user} :
          TimerNames(USER_TIMER_TASKS, v) = {"rest", "cardio_block"}

====
